---- MODULE Spec2Model ----
(***************************************************************************)
(* A model of the BlogHub server (src/app.js) over its two mongoose        *)
(* collections (user.models.js = src/unnamed/part_000, post.models.js =    *)
(* src/unnamed/part_001).                                                  *)
(*                                                                         *)
(* Every request handler is an async function: the code between two        *)
(* `await`s runs without interruption, and each awaited store operation is *)
(* one atomic step of the database.  A handler is therefore modelled as    *)
(* one action for the arrival of the request (the isLoggedIn middleware    *)
(* and the handler's code up to its first store operation) and one action  *)
(* per awaited store operation (the operation and the code that follows it *)
(* up to the next one).  Steps of different requests interleave freely.    *)
(*                                                                         *)
(* Strings are sequences of one-character strings, so that trim() and the  *)
(* schema's lowercase setter are computed, not assumed.                    *)
(***************************************************************************)
EXTENDS Integers, Sequences, FiniteSets, TLC

(***************************************************************************)
(* Bounds of the model.                                                    *)
(***************************************************************************)
\* browsers; each holds one cookie jar and has at most one request in flight
NumClients == 2
\* posts in the store at one time
MaxPosts == 1
\* post ids the store hands out
MaxIds == 2
\* the clock runs 0..MaxClock
MaxClock == 2

(***************************************************************************)
(* Program constants.                                                      *)
(***************************************************************************)
\* expiresIn: process.env.JWT_EXPIRES_IN || "1h"; one clock unit is an hour
TokenTTL == 1
\* minlength: [3, 'Username must be at least 3 characters long']
UsernameMinLen == 3

Clients == 1..NumClients
\* a well-formed post id that the store never hands out
UnknownId == 0

(***************************************************************************)
(* Strings.                                                                *)
(***************************************************************************)
\* String.prototype.toLowerCase on the characters the inputs use
LowerChar(c) ==
    CASE c = "A" -> "a"
      [] c = "B" -> "b"
      [] c = "C" -> "c"
      [] OTHER -> c

ToLower(s) == [i \in 1..Len(s) |-> LowerChar(s[i])]

RECURSIVE TrimLeft(_)
TrimLeft(s) == IF s # <<>> /\ Head(s) = " " THEN TrimLeft(Tail(s)) ELSE s

RECURSIVE TrimRight(_)
TrimRight(s) ==
    IF s # <<>> /\ s[Len(s)] = " " THEN TrimRight(SubSeq(s, 1, Len(s) - 1)) ELSE s

\* String.prototype.trim, and mongoose's trim setter
Trim(s) == TrimRight(TrimLeft(s))

\* /.+\@.+\..+/ (unanchored): a character, "@", a character, ".", a character
MatchesEmail(s) ==
    \E i, j \in 1..Len(s) :
        /\ 1 < i /\ i + 1 < j /\ j < Len(s)
        /\ s[i] = "@" /\ s[j] = "."

\* !x for a body field: undefined (absent) or the empty string
Falsy(body, k) == k \notin DOMAIN body \/ body[k] = <<>>

(***************************************************************************)
(* Request bodies a client may send.                                       *)
(***************************************************************************)
abc == <<"a", "b", "c">>
xyz == <<"x", "y", "z">>
mailA == <<"a", "@", "x", ".", "y">>
mailB == <<"b", "@", "x", ".", "y">>
pw == <<"p">>

\* POST /register bodies: a plain one, the same identity in another case and
\* with padding, another identity, a name left out, an identity too short
RegisterBodies ==
    { [username |-> abc, email |-> mailA, password |-> pw, name |-> <<"n">>],
      [username |-> <<" ", "A", "B", "C">>, email |-> mailB, password |-> pw,
       name |-> <<"n">>],
      [username |-> xyz, email |-> mailB, password |-> pw, name |-> <<"n">>],
      [username |-> xyz, email |-> mailB, password |-> pw],
      [username |-> <<"x", "y">>, email |-> mailB, password |-> pw,
       name |-> <<"n">>] }

\* POST /login bodies
LoginBodies ==
    { [email |-> mailA, password |-> pw],
      [email |-> <<"B", "@", "x", ".", "y">>, password |-> pw],
      [email |-> mailB, password |-> <<"q">>] }

\* POST /posts/create bodies: one with padding, a whitespace-only title, a
\* whitespace-only content, an empty title, a title left out
CreateBodies ==
    { [title |-> <<" ", "h", " ">>, content |-> <<"w">>],
      [title |-> <<" ">>, content |-> <<"w">>],
      [title |-> <<"h">>, content |-> <<" ">>],
      [title |-> <<>>, content |-> <<"w">>],
      [content |-> <<"w">>] }

\* POST /posts/:id/edit bodies: one with padding, a title left out
EditBodies ==
    { [title |-> <<" ", "t">>, content |-> <<"v", " ">>],
      [content |-> <<"v">>] }

NoBody == <<>>

(***************************************************************************)
(* Responses.                                                              *)
(***************************************************************************)
Redirect(path) == [status |-> 302, body |-> path]
Send(code, text) == [status |-> code, body |-> text]
NoResp == [status |-> 0, body |-> ""]

(***************************************************************************)
(* Session tokens: jwt.sign / jwt.verify with process.env.JWT_SECRET.      *)
(* sig is "valid" exactly when the signature matches the payload.          *)
(***************************************************************************)
NoToken == [id |-> 0, email |-> <<>>, exp |-> 0, sig |-> "absent"]
NoUser == [id |-> 0, email |-> <<>>]

\* jwt.sign({ email: user.email, id: user._id }, secret, { expiresIn })
Sign(email, id, now) ==
    [id |-> id, email |-> email, exp |-> now + TokenTTL, sig |-> "valid"]

\* the signature checked and the expiry ignored (ignoreExpiration: true)
VerifiesSignatureOnly(token, now) == token.sig = "valid"

\* jwt.verify: throws on a bad signature and once now >= exp
Verifies(token, now) == token.sig = "valid" /\ now < token.exp

\* bcrypt.hash(password, saltRounds) and bcrypt.compare(password, hash)
Hash(password) == <<"$2b$10$">> \o password
Compare(password, hash) == hash = Hash(password)

VARIABLES
    users,      \* the users collection: users[i] is the document with _id i
    posts,      \* the posts collection: a function from the ids in it
    nextPostId, \* the next _id the store gives to a new post
    cookies,    \* cookies[b]: the "token" cookie browser b holds
    req,        \* req[b]: the request of browser b in flight, or its last one
    clock       \* the time, in hours

vars == <<users, posts, nextPostId, cookies, req, clock>>

UserIds == 1..Len(users)

NoPost == [found |-> FALSE, author |-> 0, likes |-> <<>>]

\* a request record; user is req.user, post is what findById returned
Idle ==
    [kind |-> "none", pc |-> "done", cookie |-> NoToken, id |-> UnknownId,
     body |-> NoBody, user |-> NoUser, post |-> NoPost, resp |-> NoResp,
     touched |-> FALSE, wrote |-> FALSE]

Free(b) == req[b].pc = "done"

Init ==
    /\ users = <<>>
    /\ posts = <<>>
    /\ nextPostId = 1
    /\ cookies = [b \in Clients |-> NoToken]
    /\ req = [b \in Clients |-> Idle]
    /\ clock = 0

Tick ==
    /\ clock < MaxClock
    /\ clock' = clock + 1
    /\ UNCHANGED <<users, posts, nextPostId, cookies, req>>

\* b's request ends with record r.  Only the latest finished request is
\* remembered: the records of the requests that finished before it are cleared.
Finish(b, r) ==
    [c \in Clients |->
        IF c = b THEN [r EXCEPT !.pc = "done"]
        ELSE IF req[c].pc = "done" THEN Idle
        ELSE req[c]]

\* the handler of b's request returns: res.status(code).send / res.redirect
Respond(b, r) == Finish(b, [req[b] EXCEPT !.resp = r])

\* as Respond, the request record changed by f first
RespondWith(b, f, r) == Finish(b, [f EXCEPT !.resp = r])

(***************************************************************************)
(* userSchema: setters and validators.                                     *)
(***************************************************************************)
\* lowercase: true, trim: true (setters, run on documents and on filters)
CastIdentity(s) == Trim(ToLower(s))

\* what userModel.create validates before it inserts
UserValid(doc, name) ==
    /\ Len(doc.username) >= UsernameMinLen
    /\ MatchesEmail(doc.email)
    /\ doc.password # <<>>
    /\ Trim(name) # <<>>

\* unique: true on username and on email (the unique indexes)
UniqueOk(doc) ==
    \A i \in UserIds :
        users[i].username # doc.username /\ users[i].email # doc.email

(***************************************************************************)
(* POST /register                                                          *)
(***************************************************************************)
RegisterArrive(b) ==
    /\ Free(b)
    /\ \E body \in RegisterBodies :
        req' = [req EXCEPT ![b] =
                   [Idle EXCEPT !.kind = "register", !.pc = "findOne",
                                !.body = body, !.touched = TRUE]]
    /\ UNCHANGED <<users, posts, nextPostId, cookies, clock>>

\* userModel.findOne({ $or: [{ email }, { username }] }) and the two checks
RegisterFindOne(b) ==
    /\ req[b].kind = "register" /\ req[b].pc = "findOne"
    /\ LET body == req[b].body
           existingUser ==
               \E i \in UserIds :
                   \/ users[i].email = CastIdentity(body.email)
                   \/ users[i].username = CastIdentity(body.username)
       IN  req' =
             IF existingUser
             THEN Respond(b, Send(400, "User with this email or username already exists"))
             ELSE IF \/ Falsy(body, "username") \/ Falsy(body, "email")
                     \/ Falsy(body, "password") \/ Falsy(body, "name")
             THEN Respond(b, Send(400, "All fields are required"))
             ELSE [req EXCEPT ![b].pc = "create"]
    /\ UNCHANGED <<users, posts, nextPostId, cookies, clock>>

\* bcrypt.hash, userModel.create, jwt.sign, res.cookie, res.redirect
RegisterCreate(b) ==
    /\ req[b].kind = "register" /\ req[b].pc = "create"
    /\ LET body == req[b].body
           doc == [username |-> CastIdentity(body.username),
                   email |-> CastIdentity(body.email),
                   password |-> Hash(body.password),
                   posts |-> <<>>]
       IN  IF UserValid(doc, body.name) /\ UniqueOk(doc)
           THEN /\ users' = Append(users, doc)
                /\ cookies' = [cookies EXCEPT
                                 ![b] = Sign(doc.email, Len(users) + 1, clock)]
                /\ req' = RespondWith(b, [req[b] EXCEPT !.wrote = TRUE],
                                      Redirect("/dashboard"))
           ELSE /\ req' = Respond(b, Send(500, "Internal server error"))
                /\ UNCHANGED <<users, cookies>>
    /\ UNCHANGED <<posts, nextPostId, clock>>

(***************************************************************************)
(* POST /login                                                             *)
(***************************************************************************)
LoginArrive(b) ==
    /\ Free(b)
    /\ \E body \in LoginBodies :
        req' = [req EXCEPT ![b] =
                   [Idle EXCEPT !.kind = "login", !.pc = "findOne",
                                !.body = body, !.touched = TRUE]]
    /\ UNCHANGED <<users, posts, nextPostId, cookies, clock>>

\* userModel.findOne({ email }), bcrypt.compare, jwt.sign, res.cookie
LoginFindOne(b) ==
    /\ req[b].kind = "login" /\ req[b].pc = "findOne"
    /\ LET body == req[b].body
           found == {i \in UserIds : users[i].email = CastIdentity(body.email)}
       IN  IF found = {}
           THEN /\ req' = Respond(b, Send(400, "Invalid email or password"))
                /\ UNCHANGED cookies
           ELSE LET i == CHOOSE i \in found : TRUE
                IN  IF ~Compare(body.password, users[i].password)
                    THEN /\ req' = Respond(b, Send(400, "Invalid email or password"))
                         /\ UNCHANGED cookies
                    ELSE /\ cookies' = [cookies EXCEPT
                                          ![b] = Sign(users[i].email, i, clock)]
                         /\ req' = Respond(b, Redirect("/dashboard"))
    /\ UNCHANGED <<users, posts, nextPostId, clock>>

(***************************************************************************)
(* isLoggedIn, and the arrival of a request to a protected route.          *)
(***************************************************************************)
\* a token whose payload was altered after signing no longer verifies
Tampered(t) ==
    IF t = NoToken THEN {}
    ELSE {[t EXCEPT !.exp = @ + 1, !.sig = "invalid"]}
         \cup {[t EXCEPT !.id = i, !.sig = "invalid"] : i \in UserIds \ {t.id}}

\* the cookie a request of browser b may carry
CookieChoices(b) == {cookies[b], NoToken} \cup Tampered(cookies[b])

\* the token decoded (jwt.decode) where it should be verified
isLoggedInDecodeOnly(token, now) ==
    IF token = NoToken THEN NoUser ELSE [id |-> token.id, email |-> token.email]

\* isLoggedIn: req.user when next() is called, NoUser when it redirects
isLoggedIn(token, now) ==
    IF token = NoToken THEN NoUser
    ELSE IF Verifies(token, now) THEN [id |-> token.id, email |-> token.email]
    ELSE NoUser

\* b sends a request; the middleware runs, and the handler starts (at pc
\* first, its first store operation issued) only after next()
Arrive(b, kind, cookie, id, body, first) ==
    LET user == isLoggedIn(cookie, clock)
        r == [Idle EXCEPT !.kind = kind, !.cookie = cookie]
    IN  req' = IF user = NoUser
               THEN Finish(b, [r EXCEPT !.resp = Redirect("/login")])
               ELSE [req EXCEPT ![b] =
                       [r EXCEPT !.id = id, !.body = body, !.user = user,
                                 !.pc = first, !.touched = TRUE]]

\* the post ids a client can name: those handed out so far, and an unknown one
IdChoices == 0..(nextPostId - 1)

(***************************************************************************)
(* GET /dashboard and GET /profile                                         *)
(***************************************************************************)
DashboardArrive(b) ==
    /\ Free(b)
    /\ \E c \in CookieChoices(b) :
        Arrive(b, "dashboard", c, UnknownId, NoBody, "findUser")
    /\ UNCHANGED <<users, posts, nextPostId, cookies, clock>>

\* userModel.findById(req.user.id).populate("posts")
DashboardFindUser(b) ==
    /\ req[b].kind = "dashboard" /\ req[b].pc = "findUser"
    /\ req' = [req EXCEPT ![b].pc = "findPosts"]
    /\ UNCHANGED <<users, posts, nextPostId, cookies, clock>>

\* postModel.find().populate("author").sort({ date: -1 }), res.render
DashboardFindPosts(b) ==
    /\ req[b].kind = "dashboard" /\ req[b].pc = "findPosts"
    /\ req' = Respond(b, Send(200, "dashboard"))
    /\ UNCHANGED <<users, posts, nextPostId, cookies, clock>>

ProfileArrive(b) ==
    /\ Free(b)
    /\ \E c \in CookieChoices(b) :
        Arrive(b, "profile", c, UnknownId, NoBody, "findUser")
    /\ UNCHANGED <<users, posts, nextPostId, cookies, clock>>

\* userModel.findById(req.user.id).populate("posts"), res.render
ProfileFindUser(b) ==
    /\ req[b].kind = "profile" /\ req[b].pc = "findUser"
    /\ req' = Respond(b, Send(200, "profile"))
    /\ UNCHANGED <<users, posts, nextPostId, cookies, clock>>

(***************************************************************************)
(* Store operations on documents.                                          *)
(***************************************************************************)
\* postModel.findById: what the handler keeps of the document, or null
FindPost(id) ==
    IF id \in DOMAIN posts
    THEN [found |-> TRUE, author |-> posts[id].author, likes |-> posts[id].likes]
    ELSE NoPost

\* Array.prototype.includes on the array the handler read
Includes(arr, x) == \E i \in 1..Len(arr) : arr[i] = x

\* $push: append one element
Push(arr, x) == Append(arr, x)

\* $pull: remove every element equal to x
RECURSIVE Pull(_, _)
Pull(arr, x) ==
    IF arr = <<>> THEN <<>>
    ELSE IF Head(arr) = x THEN Pull(Tail(arr), x)
    ELSE <<Head(arr)>> \o Pull(Tail(arr), x)

\* findByIdAndUpdate(id, update) without upsert: nothing happens when the
\* document is gone
UpdatePost(id, doc) == IF id \in DOMAIN posts THEN [posts EXCEPT ![id] = doc] ELSE posts

UpdateUser(id, doc) == IF id \in UserIds THEN [users EXCEPT ![id] = doc] ELSE users

\* postSchema: what postModel.create validates (required of a String fails
\* on the empty string; title has the trim setter)
PostValid(doc) == Trim(doc.title) # <<>> /\ doc.content # <<>>

\* creates in flight that have not yet been given their id
PendingCreates == Cardinality({b \in Clients : req[b].kind = "create" /\ req[b].pc = "create"})

(***************************************************************************)
(* POST /posts/create                                                      *)
(***************************************************************************)
CreateArrive(b) ==
    /\ Free(b)
    /\ nextPostId + PendingCreates <= MaxIds
    /\ Cardinality(DOMAIN posts) + PendingCreates < MaxPosts
    /\ \E c \in CookieChoices(b), body \in CreateBodies :
        LET user == isLoggedIn(c, clock)
        IN  IF user # NoUser /\ (Falsy(body, "title") \/ Falsy(body, "content"))
            THEN req' = Finish(b,
                           [Idle EXCEPT !.kind = "create", !.cookie = c,
                                        !.body = body, !.user = user,
                                        !.resp = Send(400, "Title and Content are required")])
            ELSE Arrive(b, "create", c, UnknownId, body, "create")
    /\ UNCHANGED <<users, posts, nextPostId, cookies, clock>>

\* postModel.create({ title: title.trim(), content: content.trim(), author })
CreateInsert(b) ==
    /\ req[b].kind = "create" /\ req[b].pc = "create"
    /\ LET doc == [title |-> Trim(Trim(req[b].body.title)),
                   content |-> Trim(req[b].body.content),
                   author |-> req[b].user.id,
                   date |-> clock,
                   likes |-> <<>>]
       IN  IF PostValid(doc)
           THEN /\ posts' = [i \in DOMAIN posts \cup {nextPostId} |->
                               IF i = nextPostId THEN doc ELSE posts[i]]
                /\ nextPostId' = nextPostId + 1
                /\ req' = [req EXCEPT ![b].pc = "push", ![b].id = nextPostId,
                                      ![b].wrote = TRUE]
           ELSE /\ req' = Respond(b, Send(500, "Error creating post"))
                /\ UNCHANGED <<posts, nextPostId>>
    /\ UNCHANGED <<users, cookies, clock>>

\* userModel.findByIdAndUpdate(req.user.id, { $push: { posts: post._id } })
CreatePush(b) ==
    /\ req[b].kind = "create" /\ req[b].pc = "push"
    /\ LET u == req[b].user.id
       IN  users' = IF u \in UserIds
                    THEN UpdateUser(u, [users[u] EXCEPT !.posts = Push(@, req[b].id)])
                    ELSE users
    /\ req' = Respond(b, Redirect("/dashboard"))
    /\ UNCHANGED <<posts, nextPostId, cookies, clock>>

(***************************************************************************)
(* POST /posts/:id/like                                                    *)
(***************************************************************************)
LikeArrive(b) ==
    /\ Free(b)
    /\ \E c \in CookieChoices(b), id \in IdChoices :
        Arrive(b, "like", c, id, NoBody, "findById")
    /\ UNCHANGED <<users, posts, nextPostId, cookies, clock>>

\* alreadyLiked = post.likes.includes(userId): the update the handler picks
LikeBranch(likes, userId) == IF Includes(likes, userId) THEN "pull" ELSE "push"

\* postModel.findById(postId), the 404, and the choice of the update
LikeFind(b) ==
    /\ req[b].kind = "like" /\ req[b].pc = "findById"
    /\ LET post == FindPost(req[b].id)
       IN  req' =
             IF ~post.found
             THEN Respond(b, Send(404, "Post not found"))
             ELSE [req EXCEPT ![b].post = post,
                              ![b].pc = LikeBranch(post.likes, req[b].user.id)]
    /\ UNCHANGED <<users, posts, nextPostId, cookies, clock>>

\* the likes array after findByIdAndUpdate(postId, { $pull / $push })
LikeWrite(likes, op, userId) ==
    IF op = "pull" THEN Pull(likes, userId) ELSE Push(likes, userId)

LikeUpdate(b) ==
    /\ req[b].kind = "like" /\ req[b].pc \in {"pull", "push"}
    /\ LET id == req[b].id
       IN  posts' =
             IF id \in DOMAIN posts
             THEN UpdatePost(id, [posts[id] EXCEPT
                     !.likes = LikeWrite(@, req[b].pc, req[b].user.id)])
             ELSE posts
    /\ req' = RespondWith(b, [req[b] EXCEPT !.wrote = TRUE], Redirect("/dashboard"))
    /\ UNCHANGED <<users, nextPostId, cookies, clock>>

(***************************************************************************)
(* POST /posts/:id/delete                                                  *)
(***************************************************************************)
DeleteArrive(b) ==
    /\ Free(b)
    /\ \E c \in CookieChoices(b), id \in IdChoices :
        Arrive(b, "delete", c, id, NoBody, "findById")
    /\ UNCHANGED <<users, posts, nextPostId, cookies, clock>>

\* the ownership check left out
NotAuthorUnchecked(post, userId) == FALSE

\* post.author.toString() !== userId.toString()
NotAuthor(post, userId) == post.author # userId

\* postModel.findById(postId), the 404 and the 403
DeleteFind(b) ==
    /\ req[b].kind = "delete" /\ req[b].pc = "findById"
    /\ LET post == FindPost(req[b].id)
       IN  req' =
             IF ~post.found
             THEN Respond(b, Send(404, "Post not found"))
             ELSE IF NotAuthor(post, req[b].user.id)
             THEN RespondWith(b, [req[b] EXCEPT !.post = post],
                              Send(403, "You are not authorized to delete this post"))
             ELSE [req EXCEPT ![b].post = post, ![b].pc = "delete"]
    /\ UNCHANGED <<users, posts, nextPostId, cookies, clock>>

\* postModel.findByIdAndDelete(postId)
DeleteRemove(b) ==
    /\ req[b].kind = "delete" /\ req[b].pc = "delete"
    /\ posts' = [i \in DOMAIN posts \ {req[b].id} |-> posts[i]]
    /\ req' = [req EXCEPT ![b].pc = "pull", ![b].wrote = TRUE]
    /\ UNCHANGED <<users, nextPostId, cookies, clock>>

\* userModel.findByIdAndUpdate(userId, { $pull: { posts: postId } })
DeletePull(b) ==
    /\ req[b].kind = "delete" /\ req[b].pc = "pull"
    /\ LET u == req[b].user.id
       IN  users' = IF u \in UserIds
                    THEN UpdateUser(u, [users[u] EXCEPT !.posts = Pull(@, req[b].id)])
                    ELSE users
    /\ req' = Respond(b, Redirect("/profile"))
    /\ UNCHANGED <<posts, nextPostId, cookies, clock>>

(***************************************************************************)
(* POST /posts/:id/edit                                                    *)
(***************************************************************************)
EditArrive(b) ==
    /\ Free(b)
    /\ \E c \in CookieChoices(b), id \in IdChoices, body \in EditBodies :
        Arrive(b, "edit", c, id, body, "findById")
    /\ UNCHANGED <<users, posts, nextPostId, cookies, clock>>

\* the ownership check left out
EditRefusedIfAbsent(post, userId) == ~post.found

\* !post || post.author.toString() !== req.user.id
EditRefused(post, userId) == ~post.found \/ post.author # userId

\* postModel.findById(postId), the 403, and the update document; title.trim()
\* throws a TypeError when the field is undefined
EditFind(b) ==
    /\ req[b].kind = "edit" /\ req[b].pc = "findById"
    /\ LET post == FindPost(req[b].id)
           body == req[b].body
       IN  req' =
             IF EditRefused(post, req[b].user.id)
             THEN RespondWith(b, [req[b] EXCEPT !.post = post], Send(403, "Unauthorized"))
             ELSE IF "title" \notin DOMAIN body \/ "content" \notin DOMAIN body
             THEN RespondWith(b, [req[b] EXCEPT !.post = post],
                              Send(500, "Error editing post"))
             ELSE [req EXCEPT ![b].post = post, ![b].pc = "update",
                              ![b].body = [title |-> Trim(body.title),
                                           content |-> Trim(body.content),
                                           date |-> clock]]
    /\ UNCHANGED <<users, posts, nextPostId, cookies, clock>>

\* the document replaced by the update (overwrite) instead of $set
EditWriteReplace(doc, update) ==
    [title |-> Trim(update.title), content |-> update.content,
     date |-> update.date, author |-> 0, likes |-> <<>>]

\* the document after findByIdAndUpdate(postId, { title, content, date })
EditWrite(doc, update) ==
    [doc EXCEPT !.title = Trim(update.title), !.content = update.content,
                !.date = update.date]

\* the update issued with { upsert: true }: a missing post is inserted
EditUpdateUpsert(b) ==
    /\ req[b].kind = "edit" /\ req[b].pc = "update"
    /\ LET id == req[b].id
           doc == IF id \in DOMAIN posts THEN posts[id]
                  ELSE [title |-> <<>>, content |-> <<>>, date |-> clock,
                        author |-> 0, likes |-> <<>>]
       IN  posts' = [i \in DOMAIN posts \cup {id} |->
                        IF i = id THEN EditWrite(doc, req[b].body) ELSE posts[i]]
    /\ req' = RespondWith(b, [req[b] EXCEPT !.wrote = TRUE], Redirect("/profile"))
    /\ UNCHANGED <<users, nextPostId, cookies, clock>>

\* postModel.findByIdAndUpdate(postId, { title, content, date }), res.redirect
EditUpdate(b) ==
    /\ req[b].kind = "edit" /\ req[b].pc = "update"
    /\ LET id == req[b].id
       IN  posts' = IF id \in DOMAIN posts
                    THEN UpdatePost(id, EditWrite(posts[id], req[b].body))
                    ELSE posts
    /\ req' = RespondWith(b, [req[b] EXCEPT !.wrote = TRUE], Redirect("/profile"))
    /\ UNCHANGED <<users, nextPostId, cookies, clock>>

(***************************************************************************)
(* The server.                                                             *)
(***************************************************************************)
Next ==
    \/ Tick
    \/ \E b \in Clients :
        \/ RegisterArrive(b) \/ RegisterFindOne(b) \/ RegisterCreate(b)
        \/ LoginArrive(b) \/ LoginFindOne(b)
        \/ DashboardArrive(b) \/ DashboardFindUser(b) \/ DashboardFindPosts(b)
        \/ ProfileArrive(b) \/ ProfileFindUser(b)
        \/ CreateArrive(b) \/ CreateInsert(b) \/ CreatePush(b)
        \/ LikeArrive(b) \/ LikeFind(b) \/ LikeUpdate(b)
        \/ DeleteArrive(b) \/ DeleteFind(b) \/ DeleteRemove(b) \/ DeletePull(b)
        \/ EditArrive(b) \/ EditFind(b) \/ EditUpdate(b)

Spec == Init /\ [][Next]_vars

(***************************************************************************)
(* The parts of the server's behaviour the properties are checked on.      *)
(***************************************************************************)
\* accounts and sessions, from the empty database
NextSession ==
    \/ Tick
    \/ \E b \in Clients :
        \/ RegisterArrive(b) \/ RegisterFindOne(b) \/ RegisterCreate(b)
        \/ LoginArrive(b) \/ LoginFindOne(b)
        \/ DashboardArrive(b) \/ DashboardFindUser(b) \/ DashboardFindPosts(b)
        \/ ProfileArrive(b) \/ ProfileFindUser(b)

SpecSession == Init /\ [][NextSession]_vars

\* the database after the registrations of abc and xyz; browser 1 is logged in
\* as abc, every other browser as abc or as xyz
InitPosts ==
    /\ users = << [username |-> abc, email |-> mailA, password |-> Hash(pw),
                   posts |-> <<>>],
                  [username |-> xyz, email |-> mailB, password |-> Hash(pw),
                   posts |-> <<>>] >>
    /\ posts = <<>>
    /\ nextPostId = 1
    /\ cookies \in [Clients -> {Sign(mailA, 1, 0), Sign(mailB, 2, 0)}]
    /\ cookies[1] = Sign(mailA, 1, 0)
    /\ req = [b \in Clients |-> Idle]
    /\ clock = 0

\* the post routes, requests of different browsers interleaving
NextPosts ==
    \/ Tick
    \/ \E b \in Clients :
        \/ CreateArrive(b) \/ CreateInsert(b) \/ CreatePush(b)
        \/ LikeArrive(b) \/ LikeFind(b) \/ LikeUpdate(b)
        \/ DeleteArrive(b) \/ DeleteFind(b) \/ DeleteRemove(b) \/ DeletePull(b)
        \/ EditArrive(b) \/ EditFind(b) \/ EditUpdate(b)

SpecPosts == InitPosts /\ [][NextPosts]_vars

\* every protected route and the login, one request at a time (browser 1)
NextSequential ==
    \/ Tick
    \/ LoginArrive(1) \/ LoginFindOne(1)
    \/ DashboardArrive(1) \/ DashboardFindUser(1) \/ DashboardFindPosts(1)
    \/ ProfileArrive(1) \/ ProfileFindUser(1)
    \/ CreateArrive(1) \/ CreateInsert(1) \/ CreatePush(1)
    \/ LikeArrive(1) \/ LikeFind(1) \/ LikeUpdate(1)
    \/ DeleteArrive(1) \/ DeleteFind(1) \/ DeleteRemove(1) \/ DeletePull(1)
    \/ EditArrive(1) \/ EditFind(1) \/ EditUpdate(1)

SpecSequential == InitPosts /\ [][NextSequential]_vars

(***************************************************************************)
(* Properties.                                                             *)
(***************************************************************************)
\* b's request takes a step
Steps(b) == req'[b] # req[b]

\* C1: in every reachable state a post is in the posts collection, with
\* author u, exactly when its id is in the posts array of user u.
C1_OwnershipNeverDiverges ==
    /\ \A p \in DOMAIN posts :
        posts[p].author \in UserIds /\ Includes(users[posts[p].author].posts, p)
    /\ \A u \in UserIds : \A i \in 1..Len(users[u].posts) :
        LET p == users[u].posts[i]
        IN  p \in DOMAIN posts /\ posts[p].author = u

\* the divergence stays when every request has finished: a delete that ran
\* between a create's insert and its $push leaves a dangling reference
C1_DivergenceAtRest ==
    (\A b \in Clients : req[b].pc = "done") => C1_OwnershipNeverDiverges

\* C2: when the delete handler of a subject who is not the author looks up a
\* post that exists, the request ends there with 403, and neither the posts
\* collection nor any user's posts array changes.
C2_NonAuthorDeleteForbidden ==
    [][\A b \in Clients :
        ( /\ req[b].kind = "delete" /\ req[b].pc = "findById" /\ Steps(b)
          /\ req[b].id \in DOMAIN posts
          /\ posts[req[b].id].author # req[b].user.id )
        => /\ req'[b].pc = "done"
           /\ req'[b].resp.status = 403
           /\ ~req'[b].wrote
           /\ posts' = posts
           /\ users' = users]_vars

\* a non-author's delete has been refused and the post is still there
C2_Witness ==
    \E b \in Clients :
        /\ req[b].kind = "delete" /\ req[b].pc = "done"
        /\ req[b].resp.status = 403
        /\ req[b].id \in DOMAIN posts
        /\ posts[req[b].id].author # req[b].user.id

\* the routes behind isLoggedIn
ProtectedKinds == {"dashboard", "profile", "create", "edit", "delete", "like"}

\* the request was let in: req.user is the payload of a well-signed token
C3_Admitted(r) ==
    /\ r.user # NoUser
    /\ r.cookie.sig = "valid"
    /\ r.user = [id |-> r.cookie.id, email |-> r.cookie.email]

\* C3: a request to a protected route whose token is absent or does not verify
\* (bad signature, or expired when the request arrives) is answered with a
\* redirect to /login, issues no store operation and changes no collection;
\* a handler that is running, or that touched the store, was let in with
\* req.user taken from a token with a valid signature.
C3_ProtectedRoutesNeedSession ==
    /\ [](\A b \in Clients :
            (req[b].kind \in ProtectedKinds
               /\ (req[b].pc # "done" \/ req[b].touched \/ req[b].wrote))
            => C3_Admitted(req[b]))
    /\ [][\A b \in Clients :
            (Free(b) /\ Steps(b) /\ req'[b].kind \in ProtectedKinds)
            => LET c == req'[b].cookie
               IN  IF c.sig = "valid" /\ clock < c.exp
                   THEN C3_Admitted(req'[b])
                   ELSE /\ req'[b].pc = "done"
                        /\ req'[b].resp = Redirect("/login")
                        /\ req'[b].user = NoUser
                        /\ ~req'[b].touched /\ ~req'[b].wrote
                        /\ users' = users /\ posts' = posts]_vars

\* a request with an expired but well-signed token was sent to /login
C3_Witness ==
    \E b \in Clients :
        /\ req[b].kind \in {"create", "edit", "delete", "like"}
        /\ req[b].pc = "done"
        /\ req[b].cookie.sig = "valid" /\ req[b].cookie.exp <= clock
        /\ req[b].resp = Redirect("/login")
        /\ ~req[b].touched

\* a request with a tampered token was sent to /login
C3_WitnessTampered ==
    \E b \in Clients :
        /\ req[b].kind \in ProtectedKinds
        /\ req[b].pc = "done"
        /\ req[b].cookie.sig = "invalid"
        /\ req[b].resp = Redirect("/login")

\* C4: in every reachable state no user id occurs twice in a post's likes.
C4_NoDuplicateLikes ==
    \A p \in DOMAIN posts :
        \A i, j \in 1..Len(posts[p].likes) :
            i # j => posts[p].likes[i] # posts[p].likes[j]

\* one like request run from its lookup to its update with no step between
LikeToggle(likes, userId) == LikeWrite(likes, LikeBranch(likes, userId), userId)

\* how often x occurs in arr
Count(arr, x) == Cardinality({i \in 1..Len(arr) : arr[i] = x})

\* C5: for the likes S of every post in the store and every user u, two like
\* requests of u run one after the other leave the likes as they were: every
\* user occurs in them as often as in S.
C5_ToggleTwiceRestores ==
    \A p \in DOMAIN posts : \A u \in UserIds :
        LET S == posts[p].likes
            T == LikeToggle(LikeToggle(S, u), u)
        IN  \A w \in UserIds : Count(T, w) = Count(S, w)

\* what toggling twice does keep: who likes the post
C5_ToggleTwiceKeepsMembers ==
    \A p \in DOMAIN posts : \A u \in UserIds :
        LET S == posts[p].likes
            T == LikeToggle(LikeToggle(S, u), u)
        IN  \A w \in UserIds : Includes(T, w) <=> Includes(S, w)

\* C6: the title or content of a post changes only in the update step of an
\* edit request whose subject is the post's author; and when the edit handler
\* of another subject looks up a post that exists, the request ends there
\* with 403 and the posts collection is unchanged.
C6_OnlyAuthorEdits ==
    [][ /\ \A p \in DOMAIN posts \cap DOMAIN posts' :
            (posts'[p].title # posts[p].title \/ posts'[p].content # posts[p].content)
            => \E b \in Clients :
                /\ req[b].kind = "edit" /\ req[b].pc = "update" /\ Steps(b)
                /\ req[b].id = p
                /\ req[b].user.id = posts[p].author
        /\ \A b \in Clients :
            ( /\ req[b].kind = "edit" /\ req[b].pc = "findById" /\ Steps(b)
              /\ req[b].id \in DOMAIN posts
              /\ posts[req[b].id].author # req[b].user.id )
            => /\ req'[b].pc = "done"
               /\ req'[b].resp.status = 403
               /\ ~req'[b].wrote
               /\ posts' = posts ]_vars

\* another subject's edit has been refused, the post as its author wrote it
C6_Witness ==
    \E b \in Clients :
        /\ req[b].kind = "edit" /\ req[b].pc = "done"
        /\ req[b].resp.status = 403
        /\ req[b].id \in DOMAIN posts
        /\ posts[req[b].id].author # req[b].user.id
        /\ posts[req[b].id].title = <<"t">>

\* C7: a new post's author is the id of the subject of the create request
\* that inserts it; no step changes the author of a post; the update step of
\* an edit sets title and content to the trimmed inputs and date to the time
\* the handler took, and leaves author and likes as they were.
C7_AuthorNeverChanges ==
    [][ /\ \A p \in DOMAIN posts' \ DOMAIN posts :
            \E b \in Clients :
                /\ req[b].kind = "create" /\ req[b].pc = "create" /\ Steps(b)
                /\ posts'[p].author = req[b].user.id
                /\ req[b].user.id \in UserIds
        /\ \A p \in DOMAIN posts \cap DOMAIN posts' :
            posts'[p].author = posts[p].author
        /\ \A b \in Clients :
            ( /\ req[b].kind = "edit" /\ req[b].pc = "update" /\ Steps(b)
              /\ req[b].id \in DOMAIN posts )
            => LET p == req[b].id
               IN  /\ p \in DOMAIN posts'
                   /\ posts'[p].title = req[b].body.title
                   /\ posts'[p].content = req[b].body.content
                   /\ posts'[p].date = req[b].body.date
                   /\ posts'[p].date <= clock
                   /\ posts'[p].author = posts[p].author
                   /\ posts'[p].likes = posts[p].likes ]_vars

\* a liked post has been edited at a later time than it was created
C7_Witness ==
    \E b \in Clients :
        /\ req[b].kind = "edit" /\ req[b].pc = "done" /\ req[b].wrote
        /\ req[b].id \in DOMAIN posts
        /\ posts[req[b].id].title = <<"t">>
        /\ posts[req[b].id].content = <<"v">>
        /\ posts[req[b].id].date > 0
        /\ posts[req[b].id].likes # <<>>
        /\ posts[req[b].id].author = req[b].user.id

\* C8: a registration whose identity, lowercased and trimmed, is that of a
\* user some other request registered ends with a 4xx response and creates no
\* user (and so sets no session cookie).
C8_DuplicateIdentityConflict ==
    \A b \in Clients :
        ( /\ req[b].kind = "register" /\ req[b].pc = "done"
          /\ \E i \in UserIds :
                /\ users[i].username = CastIdentity(req[b].body.username)
                /\ (req[b].wrote => i # Len(users)) )
        => /\ req[b].resp.status \in 400..499
           /\ ~req[b].wrote

\* C9: an edit request of an authenticated subject on a post id that is not in
\* the store ends with 404, not with the 403 of the ownership check.
C9_EditAbsentIsNotFound ==
    \A b \in Clients :
        ( /\ req[b].kind = "edit" /\ req[b].pc = "done"
          /\ req[b].user # NoUser
          /\ ~req[b].post.found )
        => req[b].resp.status = 404

\* a body field that is missing or empty after trimming
Blank(body, k) == k \notin DOMAIN body \/ Trim(body[k]) = <<>>

\* C10: a create request of an authenticated subject whose title or content is
\* missing or empty after trimming ends with 400 and writes nothing.
C10_BlankCreateIsValidationError ==
    \A b \in Clients :
        ( /\ req[b].kind = "create" /\ req[b].pc = "done"
          /\ req[b].user # NoUser
          /\ (Blank(req[b].body, "title") \/ Blank(req[b].body, "content")) )
        => /\ req[b].resp.status = 400
           /\ ~req[b].wrote

\* what the code does keep: such a request writes nothing
C10_BlankCreateWritesNothing ==
    \A b \in Clients :
        ( /\ req[b].kind = "create"
          /\ req[b].user # NoUser
          /\ (Blank(req[b].body, "title") \/ Blank(req[b].body, "content")) )
        => ~req[b].wrote /\ req[b].pc \in {"create", "done"}

\* a login or a registration of browser b that ends by issuing a token
Issues(b) ==
    /\ req[b].kind \in {"login", "register"}
    /\ Steps(b)
    /\ req'[b].pc = "done"
    /\ req'[b].resp = Redirect("/dashboard")

\* a request to a protected route arrives from browser b
ArrivesProtected(b) ==
    /\ Free(b)
    /\ Steps(b)
    /\ req'[b].kind \in ProtectedKinds

\* C11: the token issued by a successful login or registration of user U
\* carries U's id and email and expires TokenTTL later; a request to a
\* protected route that presents the issued token before its expiry is passed
\* to its handler with the subject's id and email equal to U's; a request that
\* presents an expired or tampered token is redirected to /login.
C11_IssuedTokenAuthenticates ==
    /\ [][\A b \in Clients :
            Issues(b) =>
                \E i \in 1..Len(users') :
                    /\ users'[i].email = CastIdentity(req[b].body.email)
                    /\ cookies'[b] = [id |-> i, email |-> users'[i].email,
                                      exp |-> clock + TokenTTL, sig |-> "valid"]]_vars
    /\ [](\A b \in Clients :
            cookies[b] # NoToken =>
                /\ cookies[b].sig = "valid"
                /\ cookies[b].id \in UserIds
                /\ cookies[b].email = users[cookies[b].id].email)
    /\ [][\A b \in Clients :
            ArrivesProtected(b) =>
                LET c == req'[b].cookie
                IN  /\ (c = cookies[b] /\ c # NoToken /\ clock < c.exp)
                        => /\ req'[b].pc # "done"
                           /\ req'[b].user = [id |-> c.id,
                                              email |-> users[c.id].email]
                    /\ (c # NoToken /\ (c.sig # "valid" \/ clock >= c.exp))
                        => /\ req'[b].pc = "done"
                           /\ req'[b].resp = Redirect("/login")
                           /\ req'[b].user = NoUser]_vars

\* a dashboard request that presented the token issued at time 1 has been
\* served for the user the token was issued to
C11_Witness ==
    \E b \in Clients :
        /\ req[b].kind = "dashboard" /\ req[b].pc = "done"
        /\ req[b].resp.status = 200
        /\ req[b].cookie = cookies[b]
        /\ req[b].cookie.exp = 1 + TokenTTL
        /\ req[b].user.id \in UserIds
        /\ req[b].user.email = users[req[b].user.id].email

\* a request that presented the issued token after its expiry was redirected
C11_WitnessExpired ==
    \E b \in Clients :
        /\ req[b].kind \in ProtectedKinds /\ req[b].pc = "done"
        /\ req[b].cookie = cookies[b] /\ req[b].cookie # NoToken
        /\ req[b].resp = Redirect("/login")

\* the like request of browser b ends on this step
LikeEnds(b) ==
    /\ req[b].kind = "like" /\ req[b].pc # "done"
    /\ Steps(b)
    /\ req'[b].pc = "done"

\* C12: a like request that ends while its post is not in the store, whether
\* the post was absent at the lookup or was deleted between the lookup and the
\* write, ends with 404 and never with the redirect that reports success.
C12_LikeOfAbsentPostIsNotFound ==
    [][\A b \in Clients :
        (LikeEnds(b) /\ req[b].id \notin DOMAIN posts)
        => req'[b].resp.status = 404]_vars

\* what the code does keep: a post absent at the lookup is answered with 404
C12_AbsentAtLookupIsNotFound ==
    [][\A b \in Clients :
        (LikeEnds(b) /\ req[b].pc = "findById" /\ req[b].id \notin DOMAIN posts)
        => req'[b].resp = Send(404, "Post not found")]_vars

\* a like that found its post has answered with the redirect to /dashboard
\* although the post was deleted before its write
C12_LostLikeReported ==
    \E b \in Clients :
        /\ req[b].kind = "like" /\ req[b].pc = "done"
        /\ req[b].post.found /\ req[b].wrote
        /\ req[b].resp = Redirect("/dashboard")
        /\ req[b].id \notin DOMAIN posts
        /\ \A c \in Clients \ {b} : req[c].kind = "delete" => req[c].pc = "pull"

\* C13: a post removed from the store never reappears. Every id in the store
\* was handed out by a create, a step adds to the store at most the one id
\* that no post ever had, and so neither the write of an edit or a like that
\* read the post before its delete nor a later create brings a deleted id
\* back.
C13_DeletedPostNeverReappears ==
    /\ [](\A p \in DOMAIN posts : 0 < p /\ p < nextPostId)
    /\ [][/\ nextPostId' >= nextPostId
          /\ \A p \in DOMAIN posts' \ DOMAIN posts :
                /\ p = nextPostId
                /\ nextPostId' = nextPostId + 1
                /\ \E b \in Clients : req[b].kind = "create" /\ req[b].pc = "create"]_vars

\* an edit that read its post before the delete has written after it, the
\* post has stayed out of the store, and a later create was given a new id
C13_Witness ==
    \E b \in Clients :
        /\ req[b].kind = "edit" /\ req[b].pc = "done"
        /\ req[b].post.found /\ req[b].wrote
        /\ req[b].id \notin DOMAIN posts
        /\ DOMAIN posts # {}

====
